---- MODULE Spec2Model ----
(***************************************************************************)
(* Loan schedule service: schedule generation (declining balance, EMI)     *)
(* and principal reduction with recalculation, over the Loan and           *)
(* LoanPayment tables.                                                     *)
(*                                                                         *)
(* Money is held in cents (Decimal with 2 fractional digits), the annual   *)
(* interest rate in units of 0.0001 (DecimalField decimal_places=4) and    *)
(* the rate per period in units of 0.00000001 (quantize to 8 digits).      *)
(* The rate conversion is computed on the digits of its Decimal operands,  *)
(* in the 28-digit context of the code.  The other Decimal expressions are *)
(* evaluated as exact quotients and rounded half-up where the code         *)
(* quantizes; the rates per period used (0 and 0.2) are ones for which the *)
(* exact EMI is never at a rounding tie, so the 28-digit context gives the *)
(* same cents.                                                             *)
(* A transaction.atomic() block is one isolated step; a request is the     *)
(* load of its target (outside the block) followed by that step.           *)
(* A date is <<year, month, day>> of the proleptic Gregorian calendar.     *)
(* Spec is the service behind its two views.  SpecCalls is a direct call   *)
(* of one function of services.py, as the unit tests make them: call holds *)
(* the function, its arguments and, once it returned, its result.          *)
(***************************************************************************)
EXTENDS Integers, Sequences, FiniteSets, TLC

VARIABLES Loan, LoanPayment, obj, response, call

vars == <<Loan, LoanPayment, obj, response, call>>

\* ---------------------------------------------------------------- bounds
MaxLoans == 2
MaxPayments == 4
MaxText == 3
MaxValueDigits == 20

\* units of the fixed-point representations
AnnualScale == 10000
RateScale == 100000000

\* the requests in flight, each holding the LoanPayment object it loaded
Callers == {"a", "b"}

\* ---------------------------------------------------------------- inputs
\* loan terms: amount (cents), interest_rate (0.0001), periodicity
\* (characters), loan_start_date
LoanTerms ==
  [amount : {1000}, number_of_payments : {1, 2, MaxPayments},
   terms : {<<2000, <<"1", "2", "m">>, <<2024, 2, 29>> >>}]
  \cup
  [amount : {2}, number_of_payments : {MaxPayments},
   terms : {<<0, <<"1", "d">>, <<2024, 12, 30>> >>}]

ReduceAmounts == {0, 1, 100}

\* ------------------------------------------------------------ arithmetic
RECURSIVE GCD(_, _)
GCD(a, b) == IF b = 0 THEN a ELSE GCD(b, a % b)

RECURSIVE Pow(_, _)
Pow(b, e) == IF e = 0 THEN 1 ELSE b * Pow(b, e - 1)

\* n/d rounded to an integer, ROUND_HALF_UP (ties away from zero), d > 0
RoundHalfUp(n, d) ==
  IF n >= 0 THEN (2 * n + d) \div (2 * d)
            ELSE -((2 * (-n) + d) \div (2 * d))

\* the rate per period as a reduced fraction RateNum/RateDen
RateNum(rate) == rate \div GCD(rate, RateScale)
RateDen(rate) == RateScale \div GCD(rate, RateScale)

\* ------------------------------------------------------- decimal.Decimal
\* A Decimal of the rate conversion is [coef, exp]: the digits of its
\* coefficient, most significant first, and its exponent; it is >= 0.
\* the precision of the default context
prec == 28

RECURSIVE digits_of(_)
digits_of(n) ==
  IF n < 10 THEN <<n>> ELSE Append(digits_of(n \div 10), n % 10)

RECURSIVE int_of(_)
int_of(ds) ==
  IF Len(ds) = 0 THEN 0
  ELSE 10 * int_of(SubSeq(ds, 1, Len(ds) - 1)) + ds[Len(ds)]

zeros(n) == IF n <= 0 THEN <<>> ELSE [i \in 1..n |-> 0]

\* the digits without leading zeros; <<0>> for zero
strip(ds) ==
  IF \A i \in 1..Len(ds) : ds[i] = 0 THEN <<0>>
  ELSE SubSeq(ds,
              CHOOSE i \in 1..Len(ds) :
                ds[i] # 0 /\ \A j \in 1..(i - 1) : ds[j] = 0,
              Len(ds))

\* the digits of the number plus one
increment(ds) ==
  IF \A i \in 1..Len(ds) : ds[i] = 9 THEN <<1>> \o zeros(Len(ds))
  ELSE LET k == CHOOSE i \in 1..Len(ds) :
                  ds[i] # 9 /\ \A j \in (i + 1)..Len(ds) : ds[j] = 9
       IN [i \in 1..Len(ds) |->
             IF i < k THEN ds[i] ELSE IF i = k THEN ds[i] + 1 ELSE 0]

\* the digit of weight 10^i
digit_at(ds, i) == IF i < Len(ds) THEN ds[Len(ds) - i] ELSE 0

\* the digits of a + b from the weight 10^i upward, given the carry into it
RECURSIVE add_carry(_, _, _, _)
add_carry(a, b, i, carry) ==
  IF carry = 0 /\ i >= Len(a) /\ i >= Len(b) THEN <<>>
  ELSE LET t == digit_at(a, i) + digit_at(b, i) + carry
       IN Append(add_carry(a, b, i + 1, t \div 10), t % 10)

add_digits(a, b) == strip(add_carry(a, b, 0, 0))

\* the digits of a * m from the weight 10^i upward, given the carry into it;
\* m < 10^8
RECURSIVE mul_carry(_, _, _, _)
mul_carry(a, m, i, carry) ==
  IF carry = 0 /\ i >= Len(a) THEN <<>>
  ELSE LET t == digit_at(a, i) * m + carry
       IN Append(mul_carry(a, m, i + 1, t \div 10), t % 10)

\* the product of the coefficients a and b, exact: b is taken 8 digits at
\* a time
RECURSIVE mul_long(_, _)
mul_long(a, b) ==
  IF Len(b) <= 8 THEN strip(mul_carry(a, int_of(b), 0, 0))
  ELSE add_digits(mul_long(a, SubSeq(b, 1, Len(b) - 8)) \o zeros(8),
                  mul_carry(a, int_of(SubSeq(b, Len(b) - 7, Len(b))), 0, 0))

mul_digits(a, b) ==
  IF Len(a) < Len(b) THEN mul_long(b, a) ELSE mul_long(a, b)

\* the first keep digits of ds with the others rounded away
round_digits(ds, keep, rounding) ==
  LET kept == SubSeq(ds, 1, keep)
      first == ds[keep + 1]
      rest == \E i \in (keep + 2)..Len(ds) : ds[i] # 0
      odd == keep > 0 /\ (ds[keep] % 2) = 1
      up == IF rounding = "ROUND_HALF_UP" THEN first >= 5
            ELSE first > 5 \/ (first = 5 /\ (rest \/ odd))
  IN IF up THEN increment(kept) ELSE kept

\* the context's rounding of a result: at most prec digits, ROUND_HALF_EVEN
fix(coef, exp) ==
  LET ds == strip(coef)
      dropped == Len(ds) - prec
  IN IF dropped <= 0 THEN [coef |-> ds, exp |-> exp]
     ELSE LET rounded == round_digits(ds, prec, "ROUND_HALF_EVEN")
          IN IF Len(rounded) > prec
             THEN [coef |-> SubSeq(rounded, 1, prec), exp |-> exp + dropped + 1]
             ELSE [coef |-> rounded, exp |-> exp + dropped]

\* x * y
multiply(x, y) == fix(mul_digits(x.coef, y.coef), x.exp + y.exp)

\* count digits of rem / d after the leading zeros of the quotient
RECURSIVE quotient_digits(_, _, _, _)
quotient_digits(rem, d, count, started) ==
  IF count = 0 THEN <<>>
  ELSE LET q == (10 * rem) \div d
           r == (10 * rem) % d
       IN IF q = 0 /\ ~started THEN quotient_digits(r, d, count, FALSE)
          ELSE <<q>> \o quotient_digits(r, d, count - 1, TRUE)

RECURSIVE leading_zeros(_, _)
leading_zeros(rem, d) ==
  IF (10 * rem) \div d # 0 THEN 0 ELSE 1 + leading_zeros((10 * rem) % d, d)

\* Decimal(1) / Decimal(d) for an integer d > 1 whose reciprocal does not
\* terminate: prec significant digits, ROUND_HALF_EVEN (the digits after the
\* rounding digit are never all zero)
reciprocal(d) ==
  LET ds == quotient_digits(1, d, prec + 1, FALSE) \o <<1>>
      rounded == round_digits(ds, prec, "ROUND_HALF_EVEN")
      exp == -(leading_zeros(1, d) + prec)
  IN IF Len(rounded) > prec
     THEN [coef |-> SubSeq(rounded, 1, prec), exp |-> exp + 1]
     ELSE [coef |-> rounded, exp |-> exp]

\* x.quantize(Decimal(1).scaleb(exp), rounding): InvalidOperation is raised
\* when the result has more than prec digits
quantize(x, exp, rounding) ==
  LET drop == exp - x.exp
      padded == zeros(drop + 1 - Len(x.coef)) \o x.coef
      coef == IF drop <= 0 THEN strip(x.coef \o zeros(-drop))
              ELSE strip(round_digits(padded, Len(padded) - drop, rounding))
  IN IF Len(coef) > prec THEN [raised |-> TRUE]
     ELSE [raised |-> FALSE, value |-> [coef |-> coef, exp |-> exp]]

\* -------------------------------------------------------- Period parsing
DigitValue(c) ==
  CASE c = "0" -> 0 [] c = "1" -> 1 [] c = "2" -> 2 [] c = "3" -> 3
    [] c = "4" -> 4 [] c = "5" -> 5 [] c = "6" -> 6 [] c = "7" -> 7
    [] c = "8" -> 8 [] c = "9" -> 9 [] OTHER -> -1

IsDigits(s) == Len(s) > 0 /\ \A i \in 1..Len(s) : DigitValue(s[i]) >= 0

RECURSIVE DigitsValue(_)
DigitsValue(s) ==
  IF Len(s) = 0 THEN 0
  ELSE 10 * DigitsValue(SubSeq(s, 1, Len(s) - 1)) + DigitValue(s[Len(s)])

\* text.strip(): the text without the whitespace at its ends
strip_whitespace(s) ==
  IF \A i \in 1..Len(s) : s[i] = " " THEN <<>>
  ELSE SubSeq(s,
              CHOOSE i \in 1..Len(s) :
                s[i] # " " /\ \A j \in 1..(i - 1) : s[j] = " ",
              CHOOSE i \in 1..Len(s) :
                s[i] # " " /\ \A j \in (i + 1)..Len(s) : s[j] = " ")

\* digits, with single underscores allowed between two digits
IsDigitsWithUnderscores(s) ==
  /\ Len(s) > 0
  /\ \A i \in 1..Len(s) :
       \/ DigitValue(s[i]) >= 0
       \/ /\ s[i] = "_"
          /\ 1 < i /\ i < Len(s)
          /\ DigitValue(s[i - 1]) >= 0 /\ DigitValue(s[i + 1]) >= 0

without_underscores(s) == SelectSeq(s, LAMBDA c : c # "_")

\* int(text): whitespace at the ends is dropped; an optional sign, then
\* decimal digits with single underscores allowed between them
ParseInt(text) ==
  LET s == strip_whitespace(text)
      signed == Len(s) >= 1 /\ s[1] \in {"+", "-"}
      body == IF signed THEN Tail(s) ELSE s
  IN IF ~IsDigitsWithUnderscores(body) THEN [raised |-> TRUE]
     ELSE LET magnitude == DigitsValue(without_underscores(body))
          IN [raised |-> FALSE,
              value |-> IF signed /\ s[1] = "-" THEN -magnitude ELSE magnitude]

from_string(periodicity) ==
  IF Len(periodicity) < 2 THEN [raised |-> TRUE]
  ELSE LET parsed == ParseInt(SubSeq(periodicity, 1, Len(periodicity) - 1))
           unit == periodicity[Len(periodicity)]
       IN IF parsed.raised THEN [raised |-> TRUE]
          ELSE IF unit \notin {"d", "w", "m"} \/ parsed.value <= 0
               THEN [raised |-> TRUE]
               ELSE [raised |-> FALSE, value |-> parsed.value, unit |-> unit]

\* --------------------------------------------------------- DateCalculator
\* datetime.MINYEAR, datetime.MAXYEAR
MINYEAR == 1
MAXYEAR == 9999

is_leap(year) ==
  (year % 4) = 0 /\ ((year % 100) # 0 \/ (year % 400) = 0)

days_in_month(year, month) ==
  IF month = 2 THEN (IF is_leap(year) THEN 29 ELSE 28)
  ELSE IF month \in {4, 6, 9, 11} THEN 30 ELSE 31

RECURSIVE days_before_month(_, _)
days_before_month(year, month) ==
  IF month = 1 THEN 0
  ELSE days_before_month(year, month - 1) + days_in_month(year, month - 1)

days_before_year(year) ==
  LET y == year - 1
  IN y * 365 + (y \div 4) - (y \div 100) + (y \div 400)

\* date.toordinal(): the day number, 1 for 0001-01-01
toordinal(d) == days_before_year(d[1]) + days_before_month(d[1], d[2]) + d[3]

\* date.fromordinal(n), for n within the range of date
fromordinal(n) ==
  LET year == CHOOSE y \in (n \div 366)..(n \div 365 + 1) :
                days_before_year(y) < n /\ n <= days_before_year(y + 1)
      rest == n - days_before_year(year)
      month == CHOOSE m \in 1..12 :
                 /\ days_before_month(year, m) < rest
                 /\ rest <= days_before_month(year, m) + days_in_month(year, m)
  IN <<year, month, rest - days_before_month(year, month)>>

\* d + timedelta(days=days); OverflowError outside date.min .. date.max
add_days(d, days) ==
  LET n == toordinal(d) + days
  IN IF n < toordinal(<<MINYEAR, 1, 1>>) \/ n > toordinal(<<MAXYEAR, 12, 31>>)
     THEN [raised |-> TRUE]
     ELSE [raised |-> FALSE, value |-> fromordinal(n)]

\* d + relativedelta(months=months): the day is clamped to the month's length
add_months(d, months) ==
  LET total == d[1] * 12 + (d[2] - 1) + months
      year == total \div 12
      month == (total % 12) + 1
  IN IF year < MINYEAR \/ year > MAXYEAR THEN [raised |-> TRUE]
     ELSE [raised |-> FALSE,
           value |-> <<year, month,
                       IF d[3] > days_in_month(year, month)
                       THEN days_in_month(year, month) ELSE d[3]>>]

\* add_period with timedelta(days=v) in place of timedelta(weeks=v)
add_period_weeks_as_days(base_date, period) ==
  IF period.unit \in {"d", "w"} THEN add_days(base_date, period.value)
  ELSE IF period.unit = "m" THEN add_months(base_date, period.value)
  ELSE [raised |-> TRUE]

\* add_period with an unknown unit taken as days
add_period_default_days(base_date, period) ==
  IF period.unit = "w" THEN add_days(base_date, 7 * period.value)
  ELSE IF period.unit = "m" THEN add_months(base_date, period.value)
  ELSE add_days(base_date, period.value)

add_period(base_date, period) ==
  IF period.unit = "d" THEN add_days(base_date, period.value)
  ELSE IF period.unit = "w" THEN add_days(base_date, 7 * period.value)
  ELSE IF period.unit = "m" THEN add_months(base_date, period.value)
  ELSE [raised |-> TRUE]

\* ------------------------------------------------- InterestRateCalculator
\* _YEAR_FRACTION, computed when the class is defined
YEAR_FRACTION ==
  [d |-> reciprocal(365), w |-> reciprocal(52), m |-> reciprocal(12)]

\* rate_per_period on Decimal operands: the annual rate and Decimal(period.value)
rate_per_period_decimal(annual_rate, unit, value) ==
  IF unit \notin DOMAIN YEAR_FRACTION THEN [raised |-> TRUE]
  ELSE LET fraction == multiply(YEAR_FRACTION[unit], value)
       IN quantize(multiply(annual_rate, fraction), -8, "ROUND_HALF_UP")

\* rate_per_period on the fixed-point values of the tables: the annual rate
\* in units of 1/AnnualScale, the result in units of 1/RateScale
\* the quantized rate in units of 1/RateScale
in_rate_scale(quantized) ==
  IF quantized.raised THEN [raised |-> TRUE]
  ELSE [raised |-> FALSE, value |-> int_of(quantized.value.coef)]

rate_per_period_scaled(annual_rate, period) ==
  in_rate_scale(rate_per_period_decimal(
                  [coef |-> digits_of(annual_rate), exp |-> -4],
                  period.unit,
                  [coef |-> digits_of(period.value), exp |-> 0]))

\* rate_per_period is a pure function: its results for the terms of the
\* loans the machine creates, computed once
rates_of_loan_terms ==
  [k \in {<<t.terms[1], from_string(t.terms[2])>> : t \in LoanTerms} |->
     rate_per_period_scaled(k[1], k[2])]

\* the result kept for these arguments, or the result computed now
kept_or(kept, arguments, computed) ==
  IF arguments \in DOMAIN kept THEN kept[arguments] ELSE computed

rate_per_period(annual_rate, period) ==
  kept_or(rates_of_loan_terms, <<annual_rate, period>>,
          rate_per_period_scaled(annual_rate, period))

\* ---------------------------------------------------------- EMICalculator
calculate(principal, rate, number_of_payments) ==
  IF rate = 0 THEN RoundHalfUp(principal, number_of_payments)
  ELSE LET num == RateNum(rate)
           den == RateDen(rate)
           up == Pow(den + num, number_of_payments)
           dn == Pow(den, number_of_payments)
       IN RoundHalfUp(num * principal * up, den * (up - dn))

\* (balance * rate_per_period).quantize(0.01, ROUND_HALF_UP)
interest_on(balance, rate) == RoundHalfUp(balance * RateNum(rate), RateDen(rate))

\* ------------------------------------- DecliningBalanceScheduleGenerator
\* generate_line with the closure of the last line left out
generate_line_without_closure(payment_number, number_of_payments, remaining_principal, emi, rate) ==
  LET interest == interest_on(remaining_principal, rate)
  IN [payment_number |-> payment_number,
      principal |-> RoundHalfUp(emi - interest, 1),
      interest |-> interest]

\* generate_line with the interest of the last line not derived again
generate_line_closure_keeps_interest(payment_number, number_of_payments, remaining_principal, emi, rate) ==
  LET interest == interest_on(remaining_principal, rate)
  IN [payment_number |-> payment_number,
      principal |-> IF payment_number = number_of_payments
                    THEN remaining_principal
                    ELSE RoundHalfUp(emi - interest, 1),
      interest |-> interest]

\* one iteration of the loop of generate: the line for payment_number
generate_line(payment_number, number_of_payments, remaining_principal, emi, rate) ==
  LET interest == interest_on(remaining_principal, rate)
      principal == RoundHalfUp(emi - interest, 1)
  IN IF payment_number = number_of_payments
     THEN [payment_number |-> payment_number,
           principal |-> remaining_principal,
           interest |-> RoundHalfUp(emi - remaining_principal, 1)]
     ELSE [payment_number |-> payment_number,
           principal |-> principal,
           interest |-> interest]

RECURSIVE generate_loop(_, _, _, _, _, _, _, _)
generate_loop(payment_number, number_of_payments, remaining_principal, payment_date, period, emi, rate, payments) ==
  IF payment_number > number_of_payments THEN payments
  ELSE LET line == generate_line(payment_number, number_of_payments,
                                 remaining_principal, emi, rate)
       IN generate_loop(payment_number + 1, number_of_payments,
                        remaining_principal - line.principal,
                        add_period(payment_date, period).value, period,
                        emi, rate,
                        Append(payments,
                               [payment_number |-> line.payment_number,
                                date |-> payment_date,
                                principal |-> line.principal,
                                interest |-> line.interest]))

generate(amount, start_date, number_of_payments, period, rate) ==
  generate_loop(1, number_of_payments, amount, start_date, period,
                calculate(amount, rate, number_of_payments), rate, <<>>)

generate_schedule(amount, start_date, number_of_payments, periodicity, interest_rate) ==
  LET period == from_string(periodicity)
  IN generate(amount, start_date, number_of_payments, period,
              rate_per_period(interest_rate, period).value)

\* ------------------------------------------------------------ the tables
\* filter_gte with the payment_number condition left out
filter_gte_whole_loan(table, loan, n) ==
  {pk \in 1..Len(table) : table[pk].loan = loan}

\* filter_gte with payment_number__gt in place of payment_number__gte
filter_gt(table, loan, n) ==
  {pk \in 1..Len(table) : table[pk].loan = loan /\ table[pk].payment_number > n}

\* LoanPayment.objects.filter(loan=loan, payment_number__gte=n): the pks
filter_gte(table, loan, n) ==
  {pk \in 1..Len(table) : table[pk].loan = loan /\ table[pk].payment_number >= n}

\* filter_lt with the loan condition left out
filter_lt_any_loan(table, loan, n) ==
  {pk \in 1..Len(table) : table[pk].payment_number < n}

\* LoanPayment.objects.filter(loan=loan, payment_number__lt=n): the pks
filter_lt(table, loan, n) ==
  {pk \in 1..Len(table) : table[pk].loan = loan /\ table[pk].payment_number < n}

\* .order_by("payment_number"): the pks as a list
RECURSIVE order_by_payment_number(_, _)
order_by_payment_number(table, pks) ==
  IF pks = {} THEN <<>>
  ELSE LET first == CHOOSE pk \in pks :
                      \A other \in pks :
                        table[pk].payment_number <= table[other].payment_number
       IN <<first>> \o order_by_payment_number(table, pks \ {first})

\* .aggregate(total=Sum("principal"))["total"] or Decimal("0.00")
RECURSIVE sum_principal(_, _)
sum_principal(table, pks) ==
  IF pks = {} THEN 0
  ELSE LET pk == CHOOSE x \in pks : TRUE
       IN table[pk].principal + sum_principal(table, pks \ {pk})

\* LoanPaymentSerializer(payments, many=True).data
serialize(table, pks) ==
  [i \in 1..Len(pks) |-> [id |-> pks[i],
                          date |-> table[pks[i]].payment_date,
                          principal |-> table[pks[i]].principal,
                          interest |-> table[pks[i]].interest]]

\* ------------------------------------- DecliningBalancePrincipalReducer
validate(payment, reduce_amount) ==
  IF reduce_amount <= 0 THEN "ValueError"
  ELSE IF reduce_amount >= payment.principal THEN "ValueError"
  ELSE "ok"

\* apply_principal_reduction with is_principal_fixed left as it is
apply_principal_reduction_without_pin(table, payment, reduce_amount) ==
  LET reduced == [payment EXCEPT
                    !.principal = RoundHalfUp(payment.principal - reduce_amount, 1)]
  IN [payment |-> reduced,
      table |-> [table EXCEPT ![reduced.pk].principal = reduced.principal]]

\* the payment object after the reduction, and the table after its save
apply_principal_reduction(table, payment, reduce_amount) ==
  LET reduced == [payment EXCEPT
                    !.principal = RoundHalfUp(payment.principal - reduce_amount, 1),
                    !.is_principal_fixed = TRUE]
  IN [payment |-> reduced,
      table |-> [table EXCEPT ![reduced.pk].principal = reduced.principal,
                              ![reduced.pk].is_principal_fixed = TRUE]]

\* balance_before_payment with the principal already paid left out
balance_before_payment_without_paid(table, loans, payment) ==
  RoundHalfUp(loans[payment.loan].amount, 1)

balance_before_payment(table, loans, payment) ==
  LET paid == sum_principal(table,
                filter_lt(table, payment.loan, payment.payment_number))
  IN RoundHalfUp(loans[payment.loan].amount - paid, 1)

\* the affected payments, read once before the loop
affected_payments(table, payment) ==
  LET pks == order_by_payment_number(table,
               filter_gte(table, payment.loan, payment.payment_number))
  IN [i \in 1..Len(pks) |-> [pk |-> pks[i],
                             principal |-> table[pks[i]].principal,
                             is_principal_fixed |-> table[pks[i]].is_principal_fixed]]

\* recalculated_principal with the is_principal_fixed branch left out
recalculated_principal_ignoring_fixed(payment, is_last, balance, emi, interest) ==
  IF is_last THEN balance
  ELSE RoundHalfUp(emi - interest, 1)

\* the principal the loop gives one affected payment
recalculated_principal(payment, is_last, balance, emi, interest) ==
  IF payment.is_principal_fixed THEN payment.principal
  ELSE IF is_last THEN balance
  ELSE RoundHalfUp(emi - interest, 1)

RECURSIVE recalculate_loop(_, _, _, _, _, _)
recalculate_loop(table, payments, idx, balance, emi, rate) ==
  IF idx > Len(payments) THEN table
  ELSE LET payment == payments[idx]
           is_last == (idx = Len(payments))
           interest == interest_on(balance, rate)
           principal == recalculated_principal(payment, is_last, balance, emi, interest)
           saved == [table EXCEPT ![payment.pk].principal = principal,
                                  ![payment.pk].interest = interest]
       IN recalculate_loop(saved, payments, idx + 1,
                           RoundHalfUp(balance - principal, 1), emi, rate)

\* recalculate_from_payment with the EMI of the generated schedule
recalculate_from_payment_with_generated_emi(table, loans, payment, rate) ==
  LET payments == affected_payments(table, payment)
      balance == balance_before_payment(table, loans, payment)
      loan == loans[payment.loan]
      emi == calculate(loan.amount, rate, loan.number_of_payments)
  IN recalculate_loop(table, payments, 1, balance, emi, rate)

recalculate_from_payment(table, loans, payment, rate) ==
  LET payments == affected_payments(table, payment)
      balance == balance_before_payment(table, loans, payment)
      emi == calculate(balance, rate, Len(payments))
  IN recalculate_loop(table, payments, 1, balance, emi, rate)

\* a block that keeps its writes when it raises
transaction_without_rollback(before, written, raised) == written

\* with transaction.atomic(): the writes of the block are kept unless it raised
transaction_atomic(before, written, raised) ==
  IF raised THEN before ELSE written

\* execute of a reducer built on the payment object; emi_raises: the call of
\* EMICalculator.calculate raises (as patched in test_reduction_is_atomic_on_failure)
execute(table, loans, payment, reduce_amount, emi_raises) ==
  LET loan == loans[payment.loan]
      period == from_string(loan.periodicity)
      rate == rate_per_period(loan.interest_rate, period).value
  IN IF validate(payment, reduce_amount) # "ok"
     THEN [status |-> "ValueError",
           table |-> transaction_atomic(table, table, TRUE),
           payment |-> payment,
           response |-> <<>>]
     ELSE LET applied == apply_principal_reduction(table, payment, reduce_amount)
          IN IF emi_raises
             THEN [status |-> "Exception",
                   table |-> transaction_atomic(table, applied.table, TRUE),
                   payment |-> applied.payment,
                   response |-> <<>>]
             ELSE LET committed ==
                        transaction_atomic(table,
                          recalculate_from_payment(applied.table, loans,
                                                   applied.payment, rate),
                          FALSE)
                  IN [status |-> "ok",
                      table |-> committed,
                      payment |-> applied.payment,
                      response |-> serialize(committed,
                                     order_by_payment_number(committed,
                                       filter_gte(committed, payment.loan,
                                                  payment.payment_number)))]

\* get_object_or_404(LoanPayment, pk=pk): the row as an object in memory
get_object(table, pk) ==
  [pk |-> pk,
   loan |-> table[pk].loan,
   payment_number |-> table[pk].payment_number,
   payment_date |-> table[pk].payment_date,
   principal |-> table[pk].principal,
   interest |-> table[pk].interest,
   is_principal_fixed |-> table[pk].is_principal_fixed]

\* ---------------------------------------------------------- the machine
Idle == [pc |-> "idle"]

NoCall == [fn |-> "none"]

Init ==
  /\ Loan = <<>>
  /\ LoanPayment = <<>>
  /\ obj = [c \in Callers |-> Idle]
  /\ response = [status |-> "none", data |-> <<>>]
  /\ call = NoCall

\* the LoanPayment rows bulk_create stores for the loan with this id
schedule_rows(loan, id) ==
  LET payments == generate_schedule(loan.amount, loan.loan_start_date,
                                    loan.number_of_payments,
                                    loan.periodicity, loan.interest_rate)
  IN [i \in 1..Len(payments) |->
        [loan |-> id,
         payment_number |-> payments[i].payment_number,
         payment_date |-> payments[i].date,
         principal |-> payments[i].principal,
         interest |-> payments[i].interest,
         is_principal_fixed |-> FALSE]]

\* Loan.objects.create, generate_schedule, LoanPayment.objects.bulk_create
CreateLoan(t) ==
  /\ Len(Loan) < MaxLoans
  /\ LET loan == [amount |-> t.amount,
                  interest_rate |-> t.terms[1],
                  loan_start_date |-> t.terms[3],
                  number_of_payments |-> t.number_of_payments,
                  periodicity |-> t.terms[2]]
         id == Len(Loan) + 1
     IN /\ Loan' = Append(Loan, loan)
        /\ LoanPayment' = LoanPayment \o schedule_rows(loan, id)
        /\ response' = [status |-> "created",
                        data |-> serialize(LoanPayment',
                                   order_by_payment_number(LoanPayment',
                                     filter_gte(LoanPayment', id, 0)))]
  /\ UNCHANGED <<obj, call>>

\* a request loads the payment it is going to reduce
GetPayment(c, pk) ==
  /\ obj[c].pc = "idle"
  /\ pk \in 1..Len(LoanPayment)
  /\ obj' = [obj EXCEPT ![c] = [pc |-> "loaded",
                                payment |-> get_object(LoanPayment, pk)]]
  /\ UNCHANGED <<Loan, LoanPayment, response, call>>

\* DecliningBalancePrincipalReducer(payment=..., reduce_amount=amount).execute()
\* on the payment the request loaded; the request ends
ReducePrincipal(c, amount, emi_raises) ==
  /\ obj[c].pc = "loaded"
  /\ LET done == execute(LoanPayment, Loan, obj[c].payment, amount, emi_raises)
     IN /\ LoanPayment' = done.table
        /\ response' = [status |-> done.status, data |-> done.response]
        /\ obj' = [obj EXCEPT ![c] = [pc |-> "done",
                                      pk |-> obj[c].payment.pk,
                                      amount |-> amount,
                                      status |-> done.status]]
  /\ UNCHANGED <<Loan, call>>

Next ==
  \/ \E t \in LoanTerms : CreateLoan(t)
  \/ \E c \in Callers : \E pk \in 1..(MaxLoans * MaxPayments) : GetPayment(c, pk)
  \/ \E c \in Callers : \E amount \in ReduceAmounts : \E emi_raises \in BOOLEAN :
       ReducePrincipal(c, amount, emi_raises)

Spec == Init /\ [][Next]_vars

\* ------------------------------------------- direct calls of the functions
\* arguments of generate_schedule: per-period rates 0 and 0.2
GenerateScheduleArgs ==
  [amount : {1, 2, 1000, 1001},
   start_date : {<<2024, 1, 31>>, <<2023, 12, 30>>},
   number_of_payments : 1..MaxPayments,
   periodicity : {<<"1", "d">>, <<"3", "0", "d">>, <<"2", "w">>,
                  <<"1", "m">>, <<"1", "3", "m">>},
   interest_rate : {0}]
  \cup
  [amount : {1000, 1001, 99999},
   start_date : {<<2024, 2, 29>>},
   number_of_payments : 1..MaxPayments,
   periodicity : {<<"1", "2", "m">>, <<"5", "2", "w">>, <<"3", "6", "5", "d">>},
   interest_rate : {2000}]

\* the texts of at most MaxText characters over these characters
Characters == {"0", "1", "2", "+", "-", " ", "_", "d", "m", "x"}

RECURSIVE TextsOfLength(_)
TextsOfLength(n) ==
  IF n = 0 THEN {<<>>}
  ELSE {Append(t, c) : t \in TextsOfLength(n - 1), c \in Characters}

FromStringArgs == UNION {TextsOfLength(n) : n \in 0..MaxText}

\* period values: small ones, and one digit followed by zeros up to
\* MaxValueDigits digits
PeriodValues ==
  {digits_of(v) : v \in {1, 7, 12, 52, 365, 999}}
  \cup {<<lead>> \o zeros(k) : lead \in {1, 2, 5, 9}, k \in 1..(MaxValueDigits - 1)}

\* annual rates in units of 1/AnnualScale; Periods built directly, also
\* with a unit that from_string refuses
RatePerPeriodArgs ==
  [annual_rate : {0, 1, 2000, 12345, 50000, 99999},
   unit : {"d", "w", "m", "y"},
   value : PeriodValues]

AddPeriodArgs ==
  [base_date : {<<2024, 1, 31>>, <<2024, 2, 29>>, <<2023, 12, 31>>,
                <<2100, 2, 28>>, <<MAXYEAR, 12, 1>>},
   period : [value : {1, 2, 12, 13, 31, 365}, unit : {"d", "w", "m", "y"}]]

called(fn, args) == [fn |-> fn, args |-> args, pc |-> "called", result |-> <<>>]

returned(result) == [call EXCEPT !.pc = "returned", !.result = result]

InitCalls ==
  /\ Loan = <<>>
  /\ LoanPayment = <<>>
  /\ obj = [c \in Callers |-> Idle]
  /\ response = [status |-> "none", data |-> <<>>]
  /\ \/ \E args \in FromStringArgs : call = called("from_string", args)
     \/ \E args \in AddPeriodArgs : call = called("add_period", args)
     \/ \E args \in RatePerPeriodArgs : call = called("rate_per_period", args)
     \/ \E args \in GenerateScheduleArgs : call = called("generate_schedule", args)

CallFromString ==
  /\ call.fn = "from_string" /\ call.pc = "called"
  /\ call' = returned(from_string(call.args))
  /\ UNCHANGED <<Loan, LoanPayment, obj, response>>

CallAddPeriod ==
  /\ call.fn = "add_period" /\ call.pc = "called"
  /\ call' = returned(add_period(call.args.base_date, call.args.period))
  /\ UNCHANGED <<Loan, LoanPayment, obj, response>>

CallRatePerPeriod ==
  /\ call.fn = "rate_per_period" /\ call.pc = "called"
  /\ call' = returned(rate_per_period_decimal(
                         [coef |-> digits_of(call.args.annual_rate), exp |-> -4],
                         call.args.unit,
                         [coef |-> call.args.value, exp |-> 0]))
  /\ UNCHANGED <<Loan, LoanPayment, obj, response>>

CallGenerateSchedule ==
  /\ call.fn = "generate_schedule" /\ call.pc = "called"
  /\ call' = returned(generate_schedule(call.args.amount, call.args.start_date,
                                        call.args.number_of_payments,
                                        call.args.periodicity,
                                        call.args.interest_rate))
  /\ UNCHANGED <<Loan, LoanPayment, obj, response>>

NextCalls ==
  \/ CallFromString
  \/ CallAddPeriod
  \/ CallRatePerPeriod
  \/ CallGenerateSchedule

SpecCalls == InitCalls /\ [][NextCalls]_vars

\* ------------------------------------------------------------ properties
\* the pks of all the lines of a loan
lines_of(table, loan) == {pk \in 1..Len(table) : table[pk].loan = loan}

\* the principal values of a returned list, summed
RECURSIVE sum_data(_)
sum_data(data) ==
  IF Len(data) = 0 THEN 0
  ELSE data[Len(data)].principal + sum_data(SubSeq(data, 1, Len(data) - 1))

\* C1: the principal values of the schedule generated for a loan sum exactly
\* to the loan amount, and the last line's principal is the balance left by
\* the lines before it.
C1_GeneratedPrincipalSum ==
  response.status = "created" =>
    LET data == response.data
        amount == Loan[Len(Loan)].amount
    IN /\ sum_data(data) = amount
       /\ data[Len(data)].principal
            = amount - sum_data(SubSeq(data, 1, Len(data) - 1))

\* a schedule of several lines at a non-zero rate has been generated
C1_Witness ==
  /\ response.status = "created"
  /\ Len(response.data) = MaxPayments
  /\ Loan[Len(Loan)].interest_rate > 0

\* C2: after any successful reductions the stored principal of the lines of
\* every loan sums to the loan amount, and the last line's principal is the
\* balance remaining before it.
C2_StoredPrincipalSum ==
  \A l \in 1..Len(Loan) :
    /\ sum_principal(LoanPayment, lines_of(LoanPayment, l)) = Loan[l].amount
    /\ \A pk \in lines_of(LoanPayment, l) :
         LoanPayment[pk].payment_number = Loan[l].number_of_payments =>
           LoanPayment[pk].principal
             = Loan[l].amount
                 - sum_principal(LoanPayment,
                     filter_lt(LoanPayment, l, LoanPayment[pk].payment_number))

\* C3: every generated line has principal > 0 and every stored line has
\* principal >= 0.
C3_PrincipalNeverNegative ==
  /\ response.status = "created" =>
       \A i \in 1..Len(response.data) : response.data[i].principal > 0
  /\ \A pk \in 1..Len(LoanPayment) : LoanPayment[pk].principal >= 0

\* request c runs its reducer in this step
Executes(c) == obj[c].pc = "loaded" /\ obj'[c].pc = "done"

\* C4: a reduce call with reduce_amount <= 0 or reduce_amount >= the target
\* line's stored principal fails with an error and leaves every stored line
\* as it was.
C4_InvalidAmountRejected ==
  [][\A c \in Callers :
       (/\ Executes(c)
        /\ \/ obj'[c].amount <= 0
           \/ obj'[c].amount >= LoanPayment[obj[c].payment.pk].principal)
       => (obj'[c].status # "ok" /\ LoanPayment' = LoanPayment)]_vars

\* C5: a reduce call that fails after the target line was written leaves
\* every stored line as it was before the call.
C5_AtomicOnFailure ==
  [][\A c \in Callers :
       (Executes(c) /\ obj'[c].status = "Exception")
       => LoanPayment' = LoanPayment]_vars

\* a reduce call has failed in the EMI computation, after the target's save
C5_Witness ==
  \E c \in Callers : obj[c].pc = "done" /\ obj[c].status = "Exception"

\* C6: after a successful reduce call the target line's stored principal is
\* its stored principal before the call minus reduce_amount, and the target
\* line is pinned.
C6_TargetReducedByAmount ==
  [][\A c \in Callers :
       (Executes(c) /\ obj'[c].status = "ok")
       => LET pk == obj[c].payment.pk
          IN /\ LoanPayment'[pk].principal
                  = LoanPayment[pk].principal - obj'[c].amount
             /\ LoanPayment'[pk].is_principal_fixed]_vars

\* the table every loan's generated schedule is stored in, before any reduce
RECURSIVE initial_table(_, _)
initial_table(loans, id) ==
  IF id > Len(loans) THEN <<>>
  ELSE schedule_rows(loans[id], id) \o initial_table(loans, id + 1)

\* the table after one request (load, then execute) runs alone on table
served(table, request) ==
  execute(table, Loan, get_object(table, request.pk), request.amount, FALSE).table

\* C7: two concurrent reduce requests on the same loan leave the stored
\* schedule that one of their two serial orders leaves.
C7_Serializable ==
  \A c, d \in Callers :
    (/\ c # d
     /\ obj[c].pc = "done" /\ obj[c].status # "Exception"
     /\ obj[d].pc = "done" /\ obj[d].status # "Exception"
     /\ LoanPayment[obj[c].pk].loan = LoanPayment[obj[d].pk].loan)
    => LET start == initial_table(Loan, 1)
       IN \/ LoanPayment = served(served(start, obj[c]), obj[d])
          \/ LoanPayment = served(served(start, obj[d]), obj[c])

\* C8: a successful reduce call leaves the stored principal of every line
\* that is already pinned and is not its target unchanged.
C8_PinStability ==
  [][\A c \in Callers :
       (Executes(c) /\ obj'[c].status = "ok")
       => \A pk \in 1..Len(LoanPayment) :
            (LoanPayment[pk].is_principal_fixed /\ pk # obj[c].payment.pk)
            => LoanPayment'[pk].principal = LoanPayment[pk].principal]_vars

\* the last successful reduce call recalculated through a line, not its
\* target, that was pinned
C8_Witness ==
  /\ response.status = "ok"
  /\ \E i \in 2..Len(response.data) :
       LoanPayment[response.data[i].id].is_principal_fixed

\* C9: a reduce call targeting payment number k leaves every line of the
\* same loan with a payment number < k unchanged.
C9_EarlierLinesUnchanged ==
  [][\A c \in Callers :
       Executes(c)
       => \A pk \in filter_lt(LoanPayment, obj[c].payment.loan,
                              obj[c].payment.payment_number) :
            LoanPayment'[pk] = LoanPayment[pk]]_vars

\* the last successful reduce call targeted a line that has lines before it
C9_Witness ==
  /\ response.status = "ok"
  /\ LoanPayment[response.data[1].id].payment_number > 1

\* the table with the lines of every loan but this one changed
other_loans_changed(table, loan) ==
  [pk \in 1..Len(table) |->
     IF table[pk].loan = loan THEN table[pk]
     ELSE [table[pk] EXCEPT !.principal = @ + 1,
                            !.interest = @ + 1,
                            !.is_principal_fixed = ~@]]

\* C10: a reduce call on one loan leaves the lines of every other loan
\* unchanged, and what it stores for its own loan is what it stores when the
\* lines of the other loans hold other values.
C10_OtherLoansIndependent ==
  [][\A c \in Callers :
       Executes(c)
       => LET loan == obj[c].payment.loan
              alone == execute(other_loans_changed(LoanPayment, loan), Loan,
                               obj[c].payment, obj'[c].amount,
                               obj'[c].status = "Exception").table
          IN \A pk \in 1..Len(LoanPayment) :
               IF LoanPayment[pk].loan = loan
               THEN LoanPayment'[pk] = alone[pk]
               ELSE LoanPayment'[pk] = LoanPayment[pk]]_vars

\* the last successful reduce call targeted a line while another loan holds
\* lines of smaller payment numbers
C10_Witness ==
  /\ response.status = "ok"
  /\ \E pk \in 1..Len(LoanPayment) :
       /\ LoanPayment[pk].loan # LoanPayment[response.data[1].id].loan
       /\ LoanPayment[pk].payment_number
            < LoanPayment[response.data[1].id].payment_number

\* C11: a successful reduce on payment number k of a schedule of N lines
\* returns exactly the N - k + 1 lines with payment number >= k, in increasing
\* payment-number order with the target first, and it changes no line's
\* payment number or date and neither adds nor removes lines.
C11_ReturnsAffectedLines ==
  [][\A c \in Callers :
       (Executes(c) /\ obj'[c].status = "ok")
       => LET target == obj[c].payment
              N == Cardinality(lines_of(LoanPayment, target.loan))
              k == target.payment_number
              data == response'.data
          IN /\ Len(data) = N - k + 1
             /\ data[1].id = target.pk
             /\ \A i \in 1..Len(data) :
                  /\ LoanPayment'[data[i].id].loan = target.loan
                  /\ LoanPayment'[data[i].id].payment_number = k + i - 1
                  /\ data[i].date = LoanPayment[data[i].id].payment_date
             /\ Len(LoanPayment') = Len(LoanPayment)
             /\ \A pk \in 1..Len(LoanPayment) :
                  /\ LoanPayment'[pk].loan = LoanPayment[pk].loan
                  /\ LoanPayment'[pk].payment_number = LoanPayment[pk].payment_number
                  /\ LoanPayment'[pk].payment_date = LoanPayment[pk].payment_date]_vars

\* the last successful reduce call targeted a line that is neither the first
\* nor the last of its schedule
C11_Witness ==
  /\ response.status = "ok"
  /\ Len(response.data) >= 2
  /\ LoanPayment[response.data[1].id].payment_number >= 2

\* date a is before date b
date_lt(a, b) ==
  \/ a[1] < b[1]
  \/ a[1] = b[1] /\ a[2] < b[2]
  \/ a[1] = b[1] /\ a[2] = b[2] /\ a[3] < b[3]

\* date next is date prev advanced by one period: value days, value x 7 days,
\* or value calendar months with the day clamped to the end of the month
advanced(prev, next, period) ==
  CASE period.unit = "d" -> toordinal(next) = toordinal(prev) + period.value
    [] period.unit = "w" -> toordinal(next) = toordinal(prev) + 7 * period.value
    [] period.unit = "m" ->
         /\ next[1] * 12 + next[2] = prev[1] * 12 + prev[2] + period.value
         /\ next[3] = IF prev[3] > days_in_month(next[1], next[2])
                      THEN days_in_month(next[1], next[2]) ELSE prev[3]

\* C12: generate_schedule returns exactly number_of_payments lines whose
\* payment numbers are 1..number_of_payments in order; the first line's date
\* is the start date and each later line's date is the previous line's date
\* advanced by one period, so dates strictly increase.
C12_NumbersAndDates ==
  (call.fn = "generate_schedule" /\ call.pc = "returned") =>
    LET payments == call.result
        period == from_string(call.args.periodicity)
    IN /\ Len(payments) = call.args.number_of_payments
       /\ \A i \in 1..Len(payments) : payments[i].payment_number = i
       /\ payments[1].date = call.args.start_date
       /\ \A i \in 2..Len(payments) :
            /\ advanced(payments[i - 1].date, payments[i].date, period)
            /\ date_lt(payments[i - 1].date, payments[i].date)

\* a monthly schedule of several lines has been returned whose second date
\* was clamped to the end of a shorter month
C12_Witness ==
  /\ call.fn = "generate_schedule" /\ call.pc = "returned"
  /\ Len(call.result) = MaxPayments
  /\ from_string(call.args.periodicity).unit = "m"
  /\ call.result[2].date[3] < call.result[1].date[3]

\* the rate per period of a stored loan
rate_of(loan) ==
  rate_per_period(loan.interest_rate, from_string(loan.periodicity)).value

\* the running balance before a line: the loan amount minus the principal
\* stored for the lines before it
running_balance(table, pk) ==
  Loan[table[pk].loan].amount
    - sum_principal(table, filter_lt(table, table[pk].loan,
                                     table[pk].payment_number))

\* C16: a successful reduce stores, for every line with payment number >=
\* the target's, pinned or not, interest = round-half-up to 2 digits of
\* (running balance before that line x rate per period), the running balance
\* starting at the loan amount minus the principal of all earlier lines and
\* decreasing by each line's stored principal.
C16_InterestFromRunningBalance ==
  [][\A c \in Callers :
       (Executes(c) /\ obj'[c].status = "ok")
       => LET target == obj[c].payment
              rate == rate_of(Loan[target.loan])
          IN \A pk \in filter_gte(LoanPayment, target.loan,
                                  target.payment_number) :
               LoanPayment'[pk].interest
                 = RoundHalfUp(running_balance(LoanPayment', pk) * RateNum(rate),
                               RateDen(rate))]_vars

\* the last successful reduce call, on a line with lines before it,
\* recalculated a pinned line after its target to a non-zero interest
C16_Witness ==
  /\ response.status = "ok"
  /\ LoanPayment[response.data[1].id].payment_number > 1
  /\ \E i \in 2..Len(response.data) :
       /\ LoanPayment[response.data[i].id].is_principal_fixed
       /\ response.data[i].interest > 0

\* C17: a successful reduce computes the EMI once from the balance before
\* the target line and the number of affected lines, and stores for every
\* affected line that is neither pinned nor last principal = round2(that EMI
\* - its interest), for an unpinned last line the running balance, and for a
\* pinned line the principal it had stored.
C17_PrincipalFromRecomputedEmi ==
  [][\A c \in Callers :
       (Executes(c) /\ obj'[c].status = "ok")
       => LET target == obj[c].payment
              loan == Loan[target.loan]
              affected == filter_gte(LoanPayment, target.loan,
                                     target.payment_number)
              emi == calculate(running_balance(LoanPayment, target.pk),
                               rate_of(loan), Cardinality(affected))
          IN \A pk \in affected :
               LoanPayment'[pk].principal
                 = IF pk = target.pk
                   THEN target.principal - obj'[c].amount
                   ELSE IF LoanPayment[pk].is_principal_fixed
                   THEN LoanPayment[pk].principal
                   ELSE IF LoanPayment[pk].payment_number = loan.number_of_payments
                   THEN running_balance(LoanPayment', pk)
                   ELSE emi - LoanPayment'[pk].interest]_vars

\* the last successful reduce call, on a line with lines before it,
\* recalculated an unpinned line that is not the last and an unpinned last
C17_Witness ==
  /\ response.status = "ok"
  /\ Len(response.data) >= 3
  /\ LoanPayment[response.data[1].id].payment_number > 1
  /\ \A i \in 2..Len(response.data) :
       ~LoanPayment[response.data[i].id].is_principal_fixed

\* C19: every line is unpinned when its schedule is stored, a successful
\* reduce pins its target and changes no other line's flag, and no step,
\* successful or failed, unpins a stored line.
C19_PinsMonotone ==
  [][/\ \A pk \in 1..Len(LoanPayment) :
          LoanPayment[pk].is_principal_fixed => LoanPayment'[pk].is_principal_fixed
     /\ \A pk \in (Len(LoanPayment) + 1)..Len(LoanPayment') :
          ~LoanPayment'[pk].is_principal_fixed
     /\ \A c \in Callers :
          Executes(c)
          => \A pk \in 1..Len(LoanPayment) :
               LoanPayment'[pk].is_principal_fixed
                 = IF obj'[c].status = "ok" /\ pk = obj[c].payment.pk
                   THEN TRUE
                   ELSE LoanPayment[pk].is_principal_fixed]_vars

\* a reduce call has failed on a line that an earlier call pinned, while
\* another line of the table is unpinned
C19_Witness ==
  /\ \E c \in Callers :
       /\ obj[c].pc = "done"
       /\ obj[c].status # "ok"
       /\ LoanPayment[obj[c].pk].is_principal_fixed
  /\ \E pk \in 1..Len(LoanPayment) : ~LoanPayment[pk].is_principal_fixed

\* a call of fn has returned
Returned(fn) == call.fn = fn /\ call.pc = "returned"

\* C13: when the annual interest rate is 0, every line of the generated
\* schedule (the last line included) has interest exactly 0.00, and every
\* line other than the last has principal equal to amount /
\* number_of_payments rounded half-up to 2 fractional digits.
C13_ZeroRate ==
  (Returned("generate_schedule") /\ call.args.interest_rate = 0) =>
    LET payments == call.result
    IN /\ \A i \in 1..Len(payments) : payments[i].interest = 0
       /\ \A i \in 1..(Len(payments) - 1) :
            payments[i].principal
              = RoundHalfUp(call.args.amount, call.args.number_of_payments)

\* the leading part of the text and its last character
leading(text) == SubSeq(text, 1, Len(text) - 1)

\* C14: Period.from_string fails, and returns no Period, for every text that
\* has fewer than 2 characters, whose last character is not one of d, w, m,
\* whose leading part is not a non-negative integer literal, or whose parsed
\* integer is <= 0; for every other text it returns the Period with that
\* integer and unit.
C14_FromStringRejects ==
  Returned("from_string") =>
    LET text == call.args
        fails == \/ Len(text) < 2
                 \/ text[Len(text)] \notin {"d", "w", "m"}
                 \/ ~IsDigits(leading(text))
                 \/ DigitsValue(leading(text)) <= 0
    IN IF fails THEN call.result.raised
       ELSE /\ ~call.result.raised
            /\ call.result.value = DigitsValue(leading(text))
            /\ call.result.unit = text[Len(text)]

\* the digits of the quotient of ds by d, from digit i on, given the
\* remainder of the digits before it
RECURSIVE long_division(_, _, _, _)
long_division(ds, d, i, rem) ==
  IF i > Len(ds) THEN <<>>
  ELSE LET t == 10 * rem + ds[i]
       IN <<t \div d>> \o long_division(ds, d, i + 1, t % d)

\* the remainder of ds by d
RECURSIVE remainder(_, _, _, _)
remainder(ds, d, i, rem) ==
  IF i > Len(ds) THEN rem ELSE remainder(ds, d, i + 1, (10 * rem + ds[i]) % d)

\* the digits of annual_rate x value / d in units of 0.00000001, the exact
\* quotient rounded half-up; annual_rate in units of 0.0001
exact_rate(annual_rate, value, d) ==
  LET ds == mul_digits(digits_of(annual_rate), value) \o zeros(4)
      quotient == strip(long_division(ds, d, 1, 0))
  IN IF 2 * remainder(ds, d, 1, 0) >= d THEN increment(quotient) ELSE quotient

periods_per_year(unit) ==
  CASE unit = "d" -> 365 [] unit = "w" -> 52 [] unit = "m" -> 12

\* C15: for every annual rate with up to 4 fractional digits and every
\* period (value > 0, unit d/w/m), rate_per_period returns annual_rate x
\* value / D with D = 365, 52 or 12, rounded half-up to 8 fractional digits:
\* the truncated reciprocal 1/D never yields another result than the exact
\* quotient.
C15_RateIsRoundedQuotient ==
  (Returned("rate_per_period") /\ call.args.unit \in {"d", "w", "m"}) =>
    /\ ~call.result.raised
    /\ call.result.value.exp = -8
    /\ call.result.value.coef
         = exact_rate(call.args.annual_rate, call.args.value,
                      periods_per_year(call.args.unit))

\* C18: for a Period whose unit is not d, w or m, both add_period and
\* rate_per_period fail with an error instead of returning a value.
C18_UnknownUnitFails ==
  /\ (Returned("add_period") /\ call.args.period.unit \notin {"d", "w", "m"})
       => call.result.raised
  /\ (Returned("rate_per_period") /\ call.args.unit \notin {"d", "w", "m"})
       => call.result.raised

\* add_period has been called with a Period of an unknown unit and returned
C18_Witness ==
  /\ Returned("add_period")
  /\ call.args.period.unit = "y"
  /\ call.result.raised

\* the EMI the generator computes from the arguments of the call
generator_emi ==
  calculate(call.args.amount,
            rate_per_period(call.args.interest_rate,
                            from_string(call.args.periodicity)).value,
            call.args.number_of_payments)

\* C20: in every schedule returned by generate_schedule, each line's
\* principal + interest equals the same installment amount, the EMI computed
\* once from amount, rate per period and payment count, including the
\* closure-adjusted last line.
C20_LinesSumToEmi ==
  Returned("generate_schedule") =>
    \A i \in 1..Len(call.result) :
      call.result[i].principal + call.result[i].interest = generator_emi

\* a schedule of several lines at a non-zero rate has been returned whose
\* last line the closure changed
C20_Witness ==
  /\ Returned("generate_schedule")
  /\ Len(call.result) = MaxPayments
  /\ call.args.interest_rate > 0
  /\ LET last == call.result[Len(call.result)]
     IN last.interest
          # interest_on(last.principal,
                        rate_per_period(call.args.interest_rate,
                                        from_string(call.args.periodicity)).value)

====
